---- MODULE Spec2Model ----
(***************************************************************************)
(* Serial-Gui: the macro execution engine of App.py.                       *)
(*                                                                         *)
(*   - SerialReaderThread.run: the line framer (FramerSpec)                *)
(*   - MainWindow: the session buffer, the macro step interpreter that     *)
(*     runs on worker threads, and the dialogs the UI thread shows on      *)
(*     their behalf (Spec)                                                 *)
(*                                                                         *)
(* Text is modelled as sequences of one-character strings, so that strip,  *)
(* split, find and substring search are computed as Python computes them.  *)
(***************************************************************************)
EXTENDS Integers, Sequences, FiniteSets, TLC

\* ------------------------------------------------------------------ bounds
\* Length of the byte stream fed to the framer.
MaxStream == 4
\* Number of macro runs the user starts (threads created by execute_macro).
MaxRuns == 2
\* Total number of steps of the macros that are started.
MaxSteps == 4
\* Number of lines the reader thread delivers.
MaxLines == 2
\* Number of clicks on the commands of multi menus.
MaxClicks == 2
\* Longest oversleep of one time.sleep(0.01), in polling intervals.
MaxSleep == 2

\* Length of the expected texts given to the match rule (lines are one longer).
MaxText == 3

\* ------------------------------------------------------------------ text
CR == "\r"
LF == "\n"
SP == " "
\* U+FFFD, what bytes.decode(errors='replace') substitutes
REPL == "?"

Whitespace == {SP, CR, LF}

RECURSIVE LStrip(_)
LStrip(s) ==
    IF s # <<>> /\ Head(s) \in Whitespace THEN LStrip(Tail(s)) ELSE s

RECURSIVE RStrip(_)
RStrip(s) ==
    IF s # <<>> /\ s[Len(s)] \in Whitespace
    THEN RStrip(SubSeq(s, 1, Len(s) - 1)) ELSE s

\* str.strip()
Strip(s) == RStrip(LStrip(s))

\* str.find(d): the 0-based index of the first occurrence of d in s, or -1
Find(s, d) ==
    LET hits == {p \in 0..(Len(s) - Len(d)) : SubSeq(s, p + 1, p + Len(d)) = d}
    IN  IF hits = {} THEN -1 ELSE CHOOSE p \in hits : \A q \in hits : p <= q

\* d in s
Contains(s, d) == Find(s, d) # -1

\* str.split('\n')
RECURSIVE SplitLF(_)
SplitLF(s) ==
    LET p == Find(s, <<LF>>)
    IN  IF p = -1 THEN <<s>>
        ELSE <<SubSeq(s, 1, p)>> \o SplitLF(SubSeq(s, p + 2, Len(s)))

\* ------------------------------------------------------------------ framer
\* The bytes the device sends: an ASCII letter, the two delimiter bytes and
\* the two bytes of one two-byte UTF-8 character (0xC3 0xA9).
B_C3 == "C3"
B_A9 == "A9"
E_ACUTE == "e'"
StreamBytes == {"a", CR, LF, B_C3, B_A9}

\* data.decode('utf-8', errors='replace') of one chunk
RECURSIVE Decode(_)
Decode(data) ==
    IF data = <<>> THEN <<>>
    ELSE IF Head(data) = B_C3
         THEN IF Len(data) >= 2 /\ data[2] = B_A9
              THEN <<E_ACUTE>> \o Decode(SubSeq(data, 3, Len(data)))
              ELSE <<REPL>> \o Decode(Tail(data))
    ELSE IF Head(data) = B_A9 THEN <<REPL>> \o Decode(Tail(data))
    ELSE <<Head(data)>> \o Decode(Tail(data))

\* Fault variant of Delims: the pair is looked for after the single characters
DelimsPairLast == << <<LF>>, <<CR>>, <<CR, LF>> >>

\* for delim in ['\r\n', '\n', '\r']
Delims == << <<CR, LF>>, <<LF>>, <<CR>> >>

\* The for loop that finds the first line ending: <<newline_pos, line_ending>>
RECURSIVE FirstEnding(_, _, _, _)
FirstEnding(buf, k, newline_pos, line_ending) ==
    IF k > Len(Delims) THEN <<newline_pos, line_ending>>
    ELSE LET pos == Find(buf, Delims[k])
         IN  IF pos # -1 /\ pos < newline_pos
             THEN FirstEnding(buf, k + 1, pos, Delims[k])
             ELSE FirstEnding(buf, k + 1, newline_pos, line_ending)

\* The while loop of run(): <<emitted data, remaining buffer>>.  Every emitted
\* datum is the line followed by '\n', whatever the delimiter was.
RECURSIVE ProcessLines(_)
ProcessLines(buf) ==
    IF ~(Contains(buf, <<LF>>) \/ Contains(buf, <<CR>>)) THEN << <<>>, buf >>
    ELSE LET fe == FirstEnding(buf, 1, Len(buf), <<LF>>)
             newline_pos == fe[1]
             line_ending == fe[2]
         IN  IF newline_pos < Len(buf)
             THEN LET line == SubSeq(buf, 1, newline_pos)
                      rest == ProcessLines(
                                  SubSeq(buf, newline_pos + Len(line_ending) + 1, Len(buf)))
                  IN  << <<line \o <<LF>> >> \o rest[1], rest[2] >>
             ELSE << <<>>, buf >>

\* One pass of the reader loop over one chunk read from the port
ReadChunkResult(buf, data) == ProcessLines(buf \o Decode(data))

VARIABLES
    \* SerialReaderThread (framer)
    stream,        \* bytes the device has sent that are not read yet
    whole,         \* the bytes read so far, in order
    rbuffer,       \* SerialReaderThread.buffer
    emitted        \* the data_received emissions so far

framerVars == <<stream, whole, rbuffer, emitted>>

RECURSIVE SeqsUpTo(_, _)
SeqsUpTo(S, n) ==
    IF n = 0 THEN {<<>>}
    ELSE LET shorter == SeqsUpTo(S, n - 1)
         IN  shorter \cup {Append(s, x) : s \in {q \in shorter : Len(q) = n - 1}, x \in S}

FramerInit ==
    /\ stream \in SeqsUpTo(StreamBytes, MaxStream)
    /\ whole = <<>>
    /\ rbuffer = <<>>
    /\ emitted = <<>>

\* serial_port.read(chunk_size) followed by the framing loop
ReadChunk(n) ==
    /\ n \in 1..Len(stream)
    /\ LET data == SubSeq(stream, 1, n)
           r == ReadChunkResult(rbuffer, data)
       IN  /\ emitted' = emitted \o r[1]
           /\ rbuffer' = r[2]
           /\ whole' = whole \o data
    /\ stream' = SubSeq(stream, n + 1, Len(stream))


\* ------------------------------------------------------------------ match rule
\* The characters of the texts the match rule and the data handler are given
MatchAlphabet == {"O", "K", SP}

\* The match rule applied to one line and one expected text
VARIABLES
    m_line,        \* a line of the session buffer
    m_expected,    \* the 'expected' argument of _wait_for_response
    m_substring,   \* the 'substring_match' argument
    m_done,        \* the comparison has been made
    m_result       \* what it gave

matchVars == <<m_line, m_expected, m_substring, m_done, m_result>>

\* handle_serial_data applied to one datum under two settings files
VARIABLES
    f_data,        \* the 'data' argument: one line and its "\n"
    f_settings,    \* the 'general' settings of configuration 1 and 2
    f_done,        \* the handler has run
    f_display,     \* what each configuration printed to the display
    f_session      \* what each configuration appended to the session buffer

filterVars == <<f_data, f_settings, f_done, f_display, f_session>>

\* The scopes of macro_session_lock
VARIABLES
    lock_holder,   \* who holds macro_session_lock: 0 (free), an interpreter
                   \* thread, or UiThread
    lpc,           \* where each interpreter thread is among the lock scopes
    apc            \* where handle_serial_data is: "idle", "want", "in"

lockVars == <<lock_holder, lpc, apc>>

\* framer, match rule, serial data handler and lock scopes, each on its own
pureVars == <<framerVars, matchVars, filterVars, lockVars>>

\* The 'general' settings handle_serial_data reads
Settings ==
    [filter_empty_lines : BOOLEAN,
     custom_line_filter : {<<>>, <<"O", "K">>, <<SP>>},
     show_flow_indicators : BOOLEAN]

FilterInit ==
    /\ f_data \in {text \o <<LF>> : text \in SeqsUpTo(MatchAlphabet, MaxText)}
    /\ f_settings \in [{1, 2} -> Settings]
    /\ f_done = FALSE
    /\ f_display = [c \in {1, 2} |-> <<>>]
    /\ f_session = [c \in {1, 2} |-> <<>>]

FilterIdle ==
    /\ f_data = <<>>
    /\ f_settings = [c \in {1, 2} |->
                        [filter_empty_lines |-> FALSE, custom_line_filter |-> <<>>,
                         show_flow_indicators |-> TRUE]]
    /\ f_done = FALSE
    /\ f_display = [c \in {1, 2} |-> <<>>]
    /\ f_session = [c \in {1, 2} |-> <<>>]


MatchInit ==
    /\ m_line \in SeqsUpTo(MatchAlphabet, MaxText + 1)
    /\ m_expected \in SeqsUpTo(MatchAlphabet, MaxText)
    /\ m_substring \in BOOLEAN
    /\ m_done = FALSE
    /\ m_result = FALSE

MatchIdle ==
    /\ m_line = <<>>
    /\ m_expected = <<>>
    /\ m_substring = FALSE
    /\ m_done = FALSE
    /\ m_result = FALSE

\* ------------------------------------------------------------------ macros
\* settings['general']['tx_line_ending'] is 'LN' by default: '\n'
TxLineEnding == <<LF>>

AT == <<"A", "T">>
OK == <<"O", "K">>
CmdB == <<"B">>
CmdC == <<"C">>
CmdX == <<"X">>
CmdY == <<"Y">>
CmdZ == <<"Z">>

\* The value of output_config.get('fail') / .get('success'):
\* None, "IGNORE", "EXIT", "DIALOG", "DIALOG_WAIT" or {'input': cmd}
Action(a, cmd) == [a |-> a, cmd |-> cmd]
NoAction == Action("NONE", <<>>)
Ignore == Action("IGNORE", <<>>)
ExitMacro == Action("EXIT", <<>>)
PromptForCommand == Action("DIALOG", <<>>)
ConfirmOrAbort == Action("DIALOG_WAIT", <<>>)
SendCommand(cmd) == Action("INPUT", cmd)

\* One entry of the macro's 'steps' list.  bad = TRUE is a step whose value
\* has the wrong type, so that using it raises inside the step.
Step(kind, cmd, expected, timeout, substr, success, fail, commands, bad) ==
    [kind |-> kind, cmd |-> cmd, expected |-> expected, timeout |-> timeout,
     substring_match |-> substr, success |-> success, fail |-> fail,
     commands |-> commands, bad |-> bad]
Send(cmd) == Step("input", cmd, <<>>, 0, TRUE, NoAction, NoAction, <<>>, FALSE)
Delay == Step("delay", <<>>, <<>>, 0, TRUE, NoAction, NoAction, <<>>, FALSE)
BadDelay == Step("delay", <<>>, <<>>, 0, TRUE, NoAction, NoAction, <<>>, TRUE)
DialogWait == Step("dialog_wait", <<>>, <<>>, 0, TRUE, NoAction, NoAction, <<>>, FALSE)
ExpectOutput(expected, timeout, substr, success, fail) ==
    Step("output", <<>>, expected, timeout, substr, success, fail, <<>>, FALSE)
BadOutput == Step("output", <<>>, <<>>, 0, TRUE, NoAction, NoAction, <<>>, TRUE)
MenuSingle(commands) ==
    Step("menu_single", <<>>, <<>>, 0, TRUE, NoAction, NoAction, commands, FALSE)
MenuMulti(commands) ==
    Step("menu_multi", <<>>, <<>>, 0, TRUE, NoAction, NoAction, commands, FALSE)

\* The macro files the user can run (the macro buttons)
Macros == <<
    << Send(AT), ExpectOutput(OK, 1, TRUE, NoAction, ExitMacro), Send(CmdB) >>,
    << Delay, ExpectOutput(OK, 1, FALSE, Ignore, NoAction),
       MenuMulti(<<CmdX, CmdY, CmdZ>>) >>,
    << DialogWait, BadDelay, Send(CmdB) >>,
    << MenuSingle(<<CmdX, CmdY>>),
       ExpectOutput(OK, 0, TRUE, ConfirmOrAbort, PromptForCommand), BadOutput >>,
    << Send(AT), ExpectOutput(<<SP>> \o OK, 2, TRUE, ExitMacro, SendCommand(CmdC)) >>,
    << ExpectOutput(OK, 1, TRUE, SendCommand(CmdC), ConfirmOrAbort),
       ExpectOutput(OK, 0, TRUE, PromptForCommand, Ignore) >>,
    << Send(AT) >>,
    << DialogWait >>
>>

\* What the reader thread can emit: a line followed by '\n'
Lines == { OK \o <<LF>>, <<"E", "R", LF>>, <<SP, LF>> }

\* What the user can type into the "Custom Command" prompt
PromptTexts == { CmdC, <<>> }


\* ------------------------------------------------------------------ state
VARIABLES
    \* MainWindow, owned by the UI thread
    serial_port,            \* "none" (self.serial_port is None), "open", or
                            \* "closed" (a Serial object that is not open)
    command_input,          \* text of the command line edit
    uiQ,                    \* queued signal deliveries of the UI thread's event loop
    uiPc,                   \* "idle", or "append" inside handle_serial_data
    uiData,                 \* the data handle_serial_data is working on
    dialogs,                \* the modal dialogs being exec_()'d, innermost last
    \* MainWindow, shared with the interpreter threads
    macro_session_active,
    macro_session_buffer,   \* lines, each with the number the reader gave it
    \* the serial device
    written,                \* serial_port.write calls, in order, each with the
                            \* thread and the step it was made for
    nlines,                 \* lines emitted by the reader thread so far
    budget,                 \* what the user and the device will still do
    \* one interpreter thread per execute_macro call
    pc, macro, ip, cmd, elapsed, resultQ,
    outcome,                \* the terminal transcript / status notification
    errStep,                \* the step index named by the error notification
    stale,                  \* ids in the buffer when the last trigger step began
    clicks                  \* commands clicked in the thread's multi menu

uiVars == <<serial_port, command_input, uiQ, uiPc, uiData, dialogs>>
sessionVars == <<macro_session_active, macro_session_buffer>>
deviceVars == <<written, nlines, budget>>
threadVars == <<pc, macro, ip, cmd, elapsed, resultQ, outcome, errStep, stale, clicks>>
macroVars == <<uiVars, sessionVars, deviceVars, threadVars>>
vars == <<pureVars, macroVars>>

Threads == 1..MaxRuns

\* The UI thread, as a holder of the lock
UiThread == MaxRuns + 1

\* At(at, scope): a position of an interpreter thread; scope names the
\* "with self.macro_session_lock" block it waits for or is in
At(at, scope) == [at |-> at, scope |-> scope]
Outside(at) == At(at, "none")

LockIdle ==
    /\ lock_holder = 0
    /\ lpc = [t \in Threads |-> Outside("idle")]
    /\ apc = "idle"

NoData == [n |-> 0, s |-> <<>>]

\* The workloads explored: one run with MaxLines lines and MaxClicks menu
\* clicks, or MaxRuns runs on a silent device.  runs: clicks on macro
\* buttons; steps: total length of the macros started; lines: lines the
\* reader delivers; clicks: clicks on commands of a multi menu.
Workload(nruns, nsteps, nlns, nclicks) ==
    [runs |-> nruns, steps |-> nsteps, lines |-> nlns, clicks |-> nclicks]
Workloads ==
    { Workload(1, MaxSteps, MaxLines, MaxClicks),
      Workload(MaxRuns, MaxSteps, 0, 0) }

\* Event(type, by, text, n): one queued slot invocation.  n numbers what
\* the event carries: the reader's line number for data, and for a
\* send_command the index of the step that emitted it.
Event(type, by, text, n) == [type |-> type, by |-> by, text |-> text, n |-> n]

\* The value a dialog handler puts on the request's result queue
Result(ok, text) == [ok |-> ok, text |-> text]

FramerIdle ==
    /\ stream = <<>>
    /\ whole = <<>>
    /\ rbuffer = <<>>
    /\ emitted = <<>>

\* MainWindow.__init__
MacroInit ==
    /\ serial_port = "none"
    /\ command_input = <<>>
    /\ uiQ = <<>>
    /\ uiPc = "idle"
    /\ uiData = NoData
    /\ dialogs = <<>>
    /\ macro_session_active = FALSE
    /\ macro_session_buffer = <<>>
    /\ written = <<>>
    /\ nlines = 0
    /\ budget \in Workloads
    /\ pc = [t \in Threads |-> "idle"]
    /\ macro = [t \in Threads |-> 0]
    /\ ip = [t \in Threads |-> 0]
    /\ cmd = [t \in Threads |-> <<>>]
    /\ elapsed = [t \in Threads |-> 0]
    /\ resultQ = [t \in Threads |-> <<>>]
    /\ outcome = [t \in Threads |-> "none"]
    /\ errStep = [t \in Threads |-> 0]
    /\ stale = [t \in Threads |-> {}]
    /\ clicks = [t \in Threads |-> <<>>]

Init == FramerIdle /\ MatchIdle /\ FilterIdle /\ LockIdle /\ MacroInit

\* The workloads of the termination check: one run with one line and one
\* menu click, or MaxRuns runs of fewer steps on a silent device
RunWorkloads ==
    { Workload(1, MaxSteps, 1, 1),
      Workload(MaxRuns, MaxSteps - 1, 0, 0) }

\* MainWindow.__init__, for the termination check
RunInit ==
    /\ serial_port = "none"
    /\ command_input = <<>>
    /\ uiQ = <<>>
    /\ uiPc = "idle"
    /\ uiData = NoData
    /\ dialogs = <<>>
    /\ macro_session_active = FALSE
    /\ macro_session_buffer = <<>>
    /\ written = <<>>
    /\ nlines = 0
    /\ budget \in RunWorkloads
    /\ pc = [t \in Threads |-> "idle"]
    /\ macro = [t \in Threads |-> 0]
    /\ ip = [t \in Threads |-> 0]
    /\ cmd = [t \in Threads |-> <<>>]
    /\ elapsed = [t \in Threads |-> 0]
    /\ resultQ = [t \in Threads |-> <<>>]
    /\ outcome = [t \in Threads |-> "none"]
    /\ errStep = [t \in Threads |-> 0]
    /\ stale = [t \in Threads |-> {}]
    /\ clicks = [t \in Threads |-> <<>>]

Steps(t) == Macros[macro[t]]
CurStep(t) == Steps(t)[ip[t]]
AtStep(t, kind) ==
    /\ pc[t] = "step"
    /\ ip[t] <= Len(Steps(t))
    /\ CurStep(t).kind = kind

BufferIds == {macro_session_buffer[i].n : i \in DOMAIN macro_session_buffer}

\* self.macro_session_buffer.clear()
\* Fault variant of Cleared: a clear that leaves the newest line behind
ClearedButNewest(buffer) ==
    IF buffer = <<>> THEN <<>> ELSE <<buffer[Len(buffer)]>>

Cleared(buffer) == <<>>

\* Fault variant of Matches: exact mode accepts a line that contains the text
MatchesContaining(line, expected, substring_match) ==
    Contains(Strip(line), Strip(expected))

\* The match rule of _wait_for_response for one line
Matches(line, expected, substring_match) ==
    LET expected_stripped == Strip(expected)
        line_stripped == Strip(line)
    IN  IF substring_match
        THEN Contains(line_stripped, expected_stripped)
        ELSE expected_stripped = line_stripped

\* Fault variant of ScanBuffer: a scan that looks at the newest line only
ScanNewestOnly(buffer, step) ==
    /\ buffer # <<>>
    /\ Matches(buffer[Len(buffer)].s, step.expected, step.substring_match)

\* one iteration of "for line in self.macro_session_buffer"
MatchLine ==
    /\ ~m_done
    /\ m_done' = TRUE
    /\ m_result' = Matches(m_line, m_expected, m_substring)
    /\ UNCHANGED <<m_line, m_expected, m_substring>>

\* for line in self.macro_session_buffer: ... return True
ScanBuffer(buffer, step) ==
    \E i \in DOMAIN buffer :
        Matches(buffer[i].s, step.expected, step.substring_match)

\* with self.macro_session_lock: active = False; buffer.clear()
Deactivate ==
    /\ macro_session_active' = FALSE
    /\ macro_session_buffer' = Cleared(macro_session_buffer)

\* The thread returns from _execute_macro_steps
Finish(t, how) ==
    /\ pc' = [pc EXCEPT ![t] = "done"]
    /\ outcome' = [outcome EXCEPT ![t] = how]

\* The for loop moves on to the next step
NextStep(t) ==
    /\ pc' = [pc EXCEPT ![t] = "step"]
    /\ ip' = [ip EXCEPT ![t] = ip[t] + 1]


\* ------------------------------------------------------------------ interpreter
\* _execute_macro_steps, lines 1037-1045: activate the session
StartRun(t) ==
    /\ pc[t] = "start"
    /\ macro_session_active' = TRUE
    /\ macro_session_buffer' = Cleared(macro_session_buffer)
    /\ pc' = [pc EXCEPT ![t] = "step"]
    /\ ip' = [ip EXCEPT ![t] = 1]
    /\ UNCHANGED <<pureVars, uiVars, deviceVars, macro, cmd, elapsed, resultQ,
                   outcome, errStep, stale, clicks>>

\* 'input' step: clear the session buffer, then the command is sent by
\* EmitSetInput and EmitSend
StepInput(t) ==
    /\ AtStep(t, "input")
    /\ stale' = [stale EXCEPT ![t] = BufferIds]
    /\ macro_session_buffer' = Cleared(macro_session_buffer)
    /\ cmd' = [cmd EXCEPT ![t] = CurStep(t).cmd]
    /\ pc' = [pc EXCEPT ![t] = "emit_set"]
    /\ UNCHANGED <<pureVars, uiVars, deviceVars, macro_session_active, macro, ip,
                   elapsed, resultQ, outcome, errStep, clicks>>

\* self._set_command_input_threadsafe(command); time.sleep(0.05)
EmitSetInput(t) ==
    /\ pc[t] = "emit_set"
    /\ uiQ' = Append(uiQ, Event("set_input", t, cmd[t], 0))
    /\ pc' = [pc EXCEPT ![t] = "emit_send"]
    /\ UNCHANGED <<pureVars, serial_port, command_input, uiPc, uiData, dialogs,
                   sessionVars, deviceVars, macro, ip, cmd, elapsed, resultQ,
                   outcome, errStep, stale, clicks>>

\* Fault variant of EmitSend: the send is delivered ahead of the queued events
EmitSendUrgent(t) ==
    /\ pc[t] = "emit_send"
    /\ uiQ' = <<Event("send_command", t, <<>>, ip[t])>> \o uiQ
    /\ cmd' = [cmd EXCEPT ![t] = <<>>]
    /\ NextStep(t)
    /\ UNCHANGED <<pureVars, serial_port, command_input, uiPc, uiData, dialogs,
                   sessionVars, deviceVars, macro, elapsed, resultQ,
                   outcome, errStep, stale, clicks>>

\* self._send_command_threadsafe(); time.sleep(0.1); the step is over
EmitSend(t) ==
    /\ pc[t] = "emit_send"
    /\ uiQ' = Append(uiQ, Event("send_command", t, <<>>, ip[t]))
    /\ cmd' = [cmd EXCEPT ![t] = <<>>]
    /\ NextStep(t)
    /\ UNCHANGED <<pureVars, serial_port, command_input, uiPc, uiData, dialogs,
                   sessionVars, deviceVars, macro, elapsed, resultQ,
                   outcome, errStep, stale, clicks>>

\* 'delay' step: clear the session buffer; time.sleep(delay_ms / 1000.0)
\* raises for a delay that is no number
StepDelay(t) ==
    /\ AtStep(t, "delay")
    /\ stale' = [stale EXCEPT ![t] = BufferIds]
    /\ macro_session_buffer' = Cleared(macro_session_buffer)
    /\ pc' = [pc EXCEPT ![t] = IF CurStep(t).bad THEN "except" ELSE "delay_sleep"]
    /\ UNCHANGED <<pureVars, uiVars, deviceVars, macro_session_active, macro, ip, cmd,
                   elapsed, resultQ, outcome, errStep, clicks>>

\* time.sleep returns
DelaySleep(t) ==
    /\ pc[t] = "delay_sleep"
    /\ NextStep(t)
    /\ UNCHANGED <<pureVars, uiVars, sessionVars, deviceVars, macro, cmd, elapsed,
                   resultQ, outcome, errStep, stale, clicks>>

\* 'dialog_wait' step: clear the session buffer, emit macro_dialog_signal
StepDialogWait(t) ==
    /\ AtStep(t, "dialog_wait")
    /\ stale' = [stale EXCEPT ![t] = BufferIds]
    /\ macro_session_buffer' = Cleared(macro_session_buffer)
    /\ resultQ' = [resultQ EXCEPT ![t] = <<>>]
    /\ uiQ' = Append(uiQ, Event("dialog", t, <<>>, 0))
    /\ pc' = [pc EXCEPT ![t] = "get_dialog_wait"]
    /\ UNCHANGED <<pureVars, serial_port, command_input, uiPc, uiData, dialogs,
                   deviceVars, macro_session_active, macro, ip, cmd, elapsed,
                   outcome, errStep, clicks>>

\* Fault variant of GetChoice: End Macro is taken for Continue
GetChoiceGoesOn(t) ==
    /\ pc[t] \in {"get_dialog_wait", "get_confirm"}
    /\ resultQ[t] # <<>>
    /\ resultQ' = [resultQ EXCEPT ![t] = Tail(resultQ[t])]
    /\ NextStep(t)
    /\ UNCHANGED <<pureVars, uiVars, sessionVars, deviceVars, macro, cmd, elapsed,
                   outcome, errStep, stale, clicks>>

\* user_choice = result_queue.get(), in the dialog_wait step and in the
\* DIALOG_WAIT action of an output step: End Macro ends the run
GetChoice(t) ==
    /\ pc[t] \in {"get_dialog_wait", "get_confirm"}
    /\ resultQ[t] # <<>>
    /\ resultQ' = [resultQ EXCEPT ![t] = Tail(resultQ[t])]
    /\ IF Head(resultQ[t]).ok
       THEN /\ NextStep(t)
            /\ UNCHANGED <<sessionVars, outcome>>
       ELSE /\ Deactivate
            /\ Finish(t, "ended")
            /\ UNCHANGED ip
    /\ UNCHANGED <<pureVars, uiVars, deviceVars, macro, cmd, elapsed,
                   errStep, stale, clicks>>

\* Fault variant of WaitCheck: the loop gives up one polling interval early
WaitCheckEarly(t, now) ==
    IF now + 1 < CurStep(t).timeout THEN "wait_scan" ELSE "act_false"

\* while time.time() - start_time < timeout: scan again, or return False
WaitCheck(t, now) ==
    IF now < CurStep(t).timeout THEN "wait_scan" ELSE "act_false"

\* Fault variant of StepOutput: _wait_for_response without the scan that
\* precedes the polling loop
StepOutputPollOnly(t) ==
    /\ AtStep(t, "output")
    /\ elapsed' = [elapsed EXCEPT ![t] = 0]
    /\ pc' = [pc EXCEPT ![t] =
                IF CurStep(t).bad THEN "except" ELSE WaitCheck(t, 0)]
    /\ UNCHANGED <<pureVars, uiVars, sessionVars, deviceVars, macro, ip, cmd,
                   resultQ, outcome, errStep, stale, clicks>>

\* Fault variant of StepOutput: the step clears the session buffer before
\* it waits
StepOutputClears(t) ==
    /\ AtStep(t, "output")
    /\ elapsed' = [elapsed EXCEPT ![t] = 0]
    /\ macro_session_buffer' = <<>>
    /\ pc' = [pc EXCEPT ![t] =
                IF CurStep(t).bad THEN "except" ELSE WaitCheck(t, 0)]
    /\ UNCHANGED <<pureVars, uiVars, macro_session_active, deviceVars, macro, ip, cmd,
                   resultQ, outcome, errStep, stale, clicks>>

\* 'output' step: output_config.get raises when the value is no dict;
\* otherwise _wait_for_response takes start_time and scans the buffer once
StepOutput(t) ==
    /\ AtStep(t, "output")
    /\ elapsed' = [elapsed EXCEPT ![t] = 0]
    /\ pc' = [pc EXCEPT ![t] =
                IF CurStep(t).bad THEN "except"
                ELSE IF ScanBuffer(macro_session_buffer, CurStep(t)) THEN "act_true"
                ELSE WaitCheck(t, 0)]
    /\ UNCHANGED <<pureVars, uiVars, sessionVars, deviceVars, macro, ip, cmd,
                   resultQ, outcome, errStep, stale, clicks>>

\* the scan inside the polling loop
WaitScan(t) ==
    /\ pc[t] = "wait_scan"
    /\ pc' = [pc EXCEPT ![t] =
                IF ScanBuffer(macro_session_buffer, CurStep(t)) THEN "act_true"
                ELSE "wait_sleep"]
    /\ UNCHANGED <<pureVars, uiVars, sessionVars, deviceVars, macro, ip, cmd, elapsed,
                   resultQ, outcome, errStep, stale, clicks>>

\* time.sleep(0.01): at least one polling interval passes; then the loop
\* condition is evaluated
WaitSleep(t) ==
    /\ pc[t] = "wait_sleep"
    /\ \E d \in 1..MaxSleep :
          /\ elapsed' = [elapsed EXCEPT ![t] = elapsed[t] + d]
          /\ pc' = [pc EXCEPT ![t] = WaitCheck(t, elapsed[t] + d)]
    /\ UNCHANGED <<pureVars, uiVars, sessionVars, deviceVars, macro, ip, cmd,
                   resultQ, outcome, errStep, stale, clicks>>

\* Fault variant of ActionOf: the success action is evaluated in both cases
ActionOfSuccess(t) == CurStep(t).success

\* The fail action (received = False) or the success action (received = True)
ActionOf(t) ==
    IF pc[t] = "act_true" THEN CurStep(t).success ELSE CurStep(t).fail

\* "Handle fail action" / "Handle success action", after _wait_for_response
\* has returned
Act(t) ==
    /\ pc[t] \in {"act_true", "act_false"}
    /\ LET action == ActionOf(t)
       IN  CASE action.a = "EXIT" ->
                  /\ Deactivate
                  /\ Finish(t, IF pc[t] = "act_true" THEN "exit_success" ELSE "exit_fail")
                  /\ UNCHANGED <<uiQ, resultQ, cmd, ip>>
             [] action.a = "DIALOG" ->
                  /\ uiQ' = Append(uiQ, Event("input_dialog", t, <<>>, 0))
                  /\ resultQ' = [resultQ EXCEPT ![t] = <<>>]
                  /\ pc' = [pc EXCEPT ![t] = "get_prompt"]
                  /\ UNCHANGED <<sessionVars, outcome, cmd, ip>>
             [] action.a = "DIALOG_WAIT" ->
                  /\ uiQ' = Append(uiQ, Event("dialog", t, <<>>, 0))
                  /\ resultQ' = [resultQ EXCEPT ![t] = <<>>]
                  /\ pc' = [pc EXCEPT ![t] = "get_confirm"]
                  /\ UNCHANGED <<sessionVars, outcome, cmd, ip>>
             [] action.a = "INPUT" ->
                  /\ cmd' = [cmd EXCEPT ![t] = action.cmd]
                  /\ pc' = [pc EXCEPT ![t] = "emit_set"]
                  /\ UNCHANGED <<sessionVars, outcome, uiQ, resultQ, ip>>
             [] OTHER ->
                  \* "IGNORE", no action, or a value no branch tests for
                  /\ NextStep(t)
                  /\ UNCHANGED <<sessionVars, outcome, uiQ, resultQ, cmd>>
    /\ elapsed' = [elapsed EXCEPT ![t] = 0]
    /\ UNCHANGED <<pureVars, serial_port, command_input, uiPc, uiData, dialogs,
                   deviceVars, macro, errStep, stale, clicks>>

\* user_command = input_queue.get(): sent when it is a non-empty string
GetPrompt(t) ==
    /\ pc[t] = "get_prompt"
    /\ resultQ[t] # <<>>
    /\ resultQ' = [resultQ EXCEPT ![t] = Tail(resultQ[t])]
    /\ LET user_command == Head(resultQ[t])
       IN  IF user_command.ok /\ user_command.text # <<>>
           THEN /\ cmd' = [cmd EXCEPT ![t] = user_command.text]
                /\ pc' = [pc EXCEPT ![t] = "emit_set"]
                /\ UNCHANGED ip
           ELSE /\ NextStep(t)
                /\ UNCHANGED cmd
    /\ UNCHANGED <<pureVars, uiVars, sessionVars, deviceVars, macro, elapsed,
                   outcome, errStep, stale, clicks>>

\* 'menu_multi' / 'menu_single' step: emit macro_menu_signal, unless the
\* menu has no commands
StepMenu(t) ==
    /\ AtStep(t, "menu_multi") \/ AtStep(t, "menu_single")
    /\ IF CurStep(t).commands = <<>>
       THEN /\ NextStep(t)
            /\ UNCHANGED <<uiQ, resultQ, clicks>>
       ELSE /\ uiQ' = Append(uiQ, Event("menu", t, <<>>, 0))
            /\ resultQ' = [resultQ EXCEPT ![t] = <<>>]
            /\ clicks' = [clicks EXCEPT ![t] = <<>>]
            /\ pc' = [pc EXCEPT ![t] =
                        IF CurStep(t).kind = "menu_multi"
                        THEN "get_menu_multi" ELSE "get_menu_single"]
            /\ UNCHANGED ip
    /\ UNCHANGED <<pureVars, serial_port, command_input, uiPc, uiData, dialogs,
                   sessionVars, deviceVars, macro, cmd, elapsed, outcome, errStep,
                   stale>>

\* menu_multi: command_queue.get() returns when the dialog has closed
GetMenuMulti(t) ==
    /\ pc[t] = "get_menu_multi"
    /\ resultQ[t] # <<>>
    /\ resultQ' = [resultQ EXCEPT ![t] = Tail(resultQ[t])]
    /\ NextStep(t)
    /\ UNCHANGED <<pureVars, uiVars, sessionVars, deviceVars, macro, cmd, elapsed,
                   outcome, errStep, stale, clicks>>

\* Fault variant of GetMenuSingle: the selected command is sent without
\* clearing the session buffer
GetMenuSingleKeepsBuffer(t) ==
    /\ pc[t] = "get_menu_single"
    /\ resultQ[t] # <<>>
    /\ resultQ' = [resultQ EXCEPT ![t] = Tail(resultQ[t])]
    /\ LET selected == Head(resultQ[t])
       IN  IF selected.ok /\ selected.text # <<>>
           THEN /\ cmd' = [cmd EXCEPT ![t] = selected.text]
                /\ pc' = [pc EXCEPT ![t] = "emit_set"]
                /\ UNCHANGED ip
           ELSE /\ NextStep(t)
                /\ UNCHANGED cmd
    /\ UNCHANGED <<pureVars, uiVars, sessionVars, deviceVars, macro, elapsed,
                   outcome, errStep, stale, clicks>>

\* menu_single: selected = command_queue.get(); a selected command is sent
\* after the session buffer is cleared
GetMenuSingle(t) ==
    /\ pc[t] = "get_menu_single"
    /\ resultQ[t] # <<>>
    /\ resultQ' = [resultQ EXCEPT ![t] = Tail(resultQ[t])]
    /\ LET selected == Head(resultQ[t])
       IN  IF selected.ok /\ selected.text # <<>>
           THEN /\ macro_session_buffer' = Cleared(macro_session_buffer)
                /\ cmd' = [cmd EXCEPT ![t] = selected.text]
                /\ pc' = [pc EXCEPT ![t] = "emit_set"]
                /\ UNCHANGED ip
           ELSE /\ NextStep(t)
                /\ UNCHANGED <<macro_session_buffer, cmd>>
    /\ UNCHANGED <<pureVars, uiVars, deviceVars, macro_session_active, macro, elapsed,
                   outcome, errStep, stale, clicks>>

\* Fault variant of HandleException: the error is printed and the loop goes on
HandleExceptionAndGoOn(t) ==
    /\ pc[t] = "except"
    /\ errStep' = [errStep EXCEPT ![t] = ip[t]]
    /\ NextStep(t)
    /\ UNCHANGED <<pureVars, uiVars, sessionVars, deviceVars, macro, cmd, elapsed,
                   resultQ, outcome, stale, clicks>>

\* except Exception as e: the error names the step; the session is deactivated
HandleException(t) ==
    /\ pc[t] = "except"
    /\ errStep' = [errStep EXCEPT ![t] = ip[t]]
    /\ Deactivate
    /\ Finish(t, "error")
    /\ UNCHANGED <<pureVars, uiVars, deviceVars, macro, ip, cmd, elapsed, resultQ,
                   stale, clicks>>

\* Fault variant of Complete: the run ends without deactivating the session
CompleteStaysActive(t) ==
    /\ pc[t] = "step"
    /\ ip[t] > Len(Steps(t))
    /\ Finish(t, "completed")
    /\ UNCHANGED <<pureVars, uiVars, sessionVars, deviceVars, macro, ip, cmd, elapsed,
                   resultQ, errStep, stale, clicks>>

\* The loop has run out of steps: "COMPLETED", deactivate the session
Complete(t) ==
    /\ pc[t] = "step"
    /\ ip[t] > Len(Steps(t))
    /\ Deactivate
    /\ Finish(t, "completed")
    /\ UNCHANGED <<pureVars, uiVars, deviceVars, macro, ip, cmd, elapsed, resultQ,
                   errStep, stale, clicks>>


\* ------------------------------------------------------------------ UI thread
\* serial_port.write(...) as send_command calls it: the command line's text,
\* stripped, plus the line ending; just the line ending when it is empty
Payload(text) ==
    LET command == Strip(text)
    IN  IF command # <<>> THEN command \o TxLineEnding ELSE TxLineEnding

\* send_command(): <<written', command_input'>>.  Nothing happens without an
\* open port; a write that raises leaves the input uncleared.
SendCommandResult(by, step, via, write_ok) ==
    IF serial_port = "open" /\ write_ok
    THEN << Append(written, [by |-> by, step |-> step, via |-> via,
                             data |-> Payload(command_input)]),
            <<>> >>
    ELSE << written, command_input >>

UiIdle == uiPc = "idle"
HeadIs(type) == uiQ # <<>> /\ Head(uiQ).type = type

\* macro_set_input_signal -> command_input.setText
UiSetInput ==
    /\ UiIdle /\ HeadIs("set_input")
    /\ command_input' = Head(uiQ).text
    /\ uiQ' = Tail(uiQ)
    /\ UNCHANGED <<pureVars, serial_port, uiPc, uiData, dialogs, sessionVars,
                   deviceVars, threadVars>>

\* macro_send_command_signal -> send_command
UiSendCommand ==
    /\ UiIdle /\ HeadIs("send_command")
    /\ \E write_ok \in BOOLEAN :
          LET r == SendCommandResult(Head(uiQ).by, Head(uiQ).n, "step", write_ok)
          IN  /\ written' = r[1]
              /\ command_input' = r[2]
    /\ uiQ' = Tail(uiQ)
    /\ UNCHANGED <<pureVars, serial_port, uiPc, uiData, dialogs, sessionVars,
                   nlines, budget, threadVars>>

\* data_received -> handle_serial_data, up to "if self.macro_session_active"
\* (the flag is read without the lock)
UiHandleSerialData ==
    /\ UiIdle /\ HeadIs("data")
    /\ uiQ' = Tail(uiQ)
    /\ IF macro_session_active
       THEN /\ uiPc' = "append"
            /\ uiData' = [n |-> Head(uiQ).n, s |-> Head(uiQ).text]
       ELSE UNCHANGED <<uiPc, uiData>>
    /\ UNCHANGED <<pureVars, serial_port, command_input, dialogs, sessionVars,
                   deviceVars, threadVars>>

\* Fault variant of NonBlank: every line of the datum is appended
AllLines(n, lines) == [i \in DOMAIN lines |-> [n |-> n, s |-> lines[i]]]

\* The lines handle_serial_data appends for one datum: the non-blank ones
RECURSIVE NonBlank(_, _)
NonBlank(n, lines) ==
    IF lines = <<>> THEN <<>>
    ELSE (IF Strip(Head(lines)) # <<>> THEN <<[n |-> n, s |-> Head(lines)]>> ELSE <<>>)
         \o NonBlank(n, Tail(lines))

\* Fault variant of UiAppend: the lines are put in front of the buffer
UiAppendFront ==
    /\ uiPc = "append"
    /\ macro_session_buffer' =
          NonBlank(uiData.n, SplitLF(uiData.s)) \o macro_session_buffer
    /\ uiPc' = "idle"
    /\ uiData' = NoData
    /\ UNCHANGED <<pureVars, serial_port, command_input, uiQ, dialogs,
                   macro_session_active, deviceVars, threadVars>>

\* handle_serial_data: with self.macro_session_lock: append the lines
UiAppend ==
    /\ uiPc = "append"
    /\ macro_session_buffer' =
          macro_session_buffer \o NonBlank(uiData.n, SplitLF(uiData.s))
    /\ uiPc' = "idle"
    /\ uiData' = NoData
    /\ UNCHANGED <<pureVars, serial_port, command_input, uiQ, dialogs,
                   macro_session_active, deviceVars, threadVars>>

\* '\n'.join(lines)
RECURSIVE JoinLF(_)
JoinLF(lines) ==
    IF lines = <<>> THEN <<>>
    ELSE IF Len(lines) = 1 THEN lines[1]
    ELSE lines[1] \o <<LF>> \o JoinLF(Tail(lines))

\* the loop that builds filtered_lines
RECURSIVE FilteredLines(_, _)
FilteredLines(lines, settings) ==
    IF lines = <<>> THEN <<>>
    ELSE LET line == Head(lines)
             custom_filter == Strip(settings.custom_line_filter)
             dropped == \/ settings.filter_empty_lines /\ Strip(line) = <<>>
                        \/ custom_filter # <<>> /\ Strip(line) = custom_filter
         IN  (IF dropped THEN <<>> ELSE <<line>>) \o FilteredLines(Tail(lines), settings)

\* while filtered_lines and not filtered_lines[-1].strip(): pop()
RECURSIVE PopBlank(_)
PopBlank(lines) ==
    IF lines # <<>> /\ Strip(lines[Len(lines)]) = <<>>
    THEN PopBlank(SubSeq(lines, 1, Len(lines) - 1)) ELSE lines

\* handle_serial_data, display part: the texts given to print_to_display
Displayed(data, settings) ==
    LET split == SplitLF(data)
        lines == IF split[Len(split)] = <<>>
                 THEN SubSeq(split, 1, Len(split) - 1) ELSE split
        filtered == FilteredLines(lines, settings)
        filter_empty == settings.filter_empty_lines
        kept == IF filter_empty THEN PopBlank(filtered) ELSE filtered
        filtered_data == JoinLF(kept)
    IN  IF /\ filtered # <<>>
           /\ (kept # <<>> \/ ~filter_empty)
           /\ (~filter_empty \/ Strip(filtered_data) # <<>>)
        THEN <<(IF settings.show_flow_indicators THEN <<">", SP>> ELSE <<>>)
                  \o filtered_data>>
        ELSE <<>>

\* Fault variant of SessionLines: the session buffer is fed what is displayed
SessionLinesFiltered(data, settings) ==
    [i \in DOMAIN Displayed(data, settings) |-> [n |-> 0, s |-> Displayed(data, settings)[i]]]

\* handle_serial_data, session part (macro_session_active): the lines appended
SessionLines(data, settings) == NonBlank(0, SplitLF(data))

\* handle_serial_data run once for each of the two configurations
HandleBoth ==
    /\ ~f_done
    /\ f_done' = TRUE
    /\ f_display' = [c \in {1, 2} |-> Displayed(f_data, f_settings[c])]
    /\ f_session' = [c \in {1, 2} |-> SessionLines(f_data, f_settings[c])]
    /\ UNCHANGED <<f_data, f_settings>>

\* macro_dialog_signal / macro_input_dialog_signal / macro_menu_signal: the
\* handler builds the dialog and enters exec_()
DialogKind(e) ==
    CASE e.type = "dialog" -> "confirm"
      [] e.type = "input_dialog" -> "prompt"
      [] e.type = "menu" -> Macros[macro[e.by]][ip[e.by]].kind

UiShowDialog ==
    /\ UiIdle
    /\ HeadIs("dialog") \/ HeadIs("input_dialog") \/ HeadIs("menu")
    /\ dialogs' = Append(dialogs, [by |-> Head(uiQ).by, kind |-> DialogKind(Head(uiQ))])
    /\ uiQ' = Tail(uiQ)
    /\ UNCHANGED <<pureVars, serial_port, command_input, uiPc, uiData, sessionVars,
                   deviceVars, threadVars>>

Top == dialogs[Len(dialogs)]
TopIs(kind) == UiIdle /\ dialogs # <<>> /\ Top.kind = kind

\* result_queue.put(value), once exec_() has returned
Put(queues, t, value) == [queues EXCEPT ![t] = Append(queues[t], value)]

\* exec_() of the innermost dialog returns and its handler puts the result
CloseTop(value) ==
    /\ resultQ' = Put(resultQ, Top.by, value)
    /\ dialogs' = SubSeq(dialogs, 1, Len(dialogs) - 1)

\* _show_macro_dialog: Continue (True) or End Macro (False)
AnswerDialog(choice) ==
    /\ TopIs("confirm")
    /\ CloseTop(Result(choice, <<>>))
    /\ UNCHANGED <<pureVars, serial_port, command_input, uiQ, uiPc, uiData,
                   sessionVars, deviceVars, pc, macro, ip, cmd, elapsed, outcome,
                   errStep, stale, clicks>>

\* _show_macro_input_dialog: text if ok else None
AnswerInputDialog(ok, text) ==
    /\ TopIs("prompt")
    /\ CloseTop(IF ok THEN Result(TRUE, text) ELSE Result(FALSE, <<>>))
    /\ UNCHANGED <<pureVars, serial_port, command_input, uiQ, uiPc, uiData,
                   sessionVars, deviceVars, pc, macro, ip, cmd, elapsed, outcome,
                   errStep, stale, clicks>>

\* _send_macro_command_direct, called on the UI thread by the multi menu:
\* both signals are delivered directly, setText then send_command
SendMacroCommandDirect(by, step, command, write_ok) ==
    LET payload == Payload(command)
    IN  IF serial_port = "open" /\ write_ok
        THEN << Append(written, [by |-> by, step |-> step, via |-> "menu",
                                 data |-> payload]), <<>> >>
        ELSE << written, command >>

\* MenuDialog(commands=...): the dialog shows one button per command of the
\* step that opened it
MenuDialogButtons == Macros[macro[Top.by]][ip[Top.by]].commands

\* MenuDialog, multi mode: a click on a command calls on_command_execute
MenuClick(c) ==
    /\ TopIs("menu_multi")
    /\ budget.clicks > 0
    /\ budget' = [budget EXCEPT !.clicks = @ - 1]
    /\ c \in DOMAIN MenuDialogButtons
    /\ LET command == MenuDialogButtons[c]
       IN  /\ clicks' = [clicks EXCEPT ![Top.by] = Append(@, command)]
           /\ \E write_ok \in BOOLEAN :
                 LET r == SendMacroCommandDirect(Top.by, ip[Top.by], command, write_ok)
                 IN  /\ written' = r[1]
                     /\ command_input' = r[2]
    /\ UNCHANGED <<pureVars, serial_port, uiQ, uiPc, uiData, dialogs, sessionVars,
                   nlines, pc, macro, ip, cmd, elapsed, resultQ, outcome, errStep,
                   stale>>

\* MenuDialog, multi mode: Continue closes the dialog; _show_macro_menu puts None
MenuContinue ==
    /\ TopIs("menu_multi")
    /\ CloseTop(Result(FALSE, <<>>))
    /\ UNCHANGED <<pureVars, serial_port, command_input, uiQ, uiPc, uiData,
                   sessionVars, deviceVars, pc, macro, ip, cmd, elapsed, outcome,
                   errStep, stale, clicks>>

\* MenuDialog, single mode: a click selects the command and closes the
\* dialog (c = 0: the dialog is cancelled, selected_command stays None)
MenuSelect(c) ==
    /\ TopIs("menu_single")
    /\ c \in {0} \cup DOMAIN MenuDialogButtons
    /\ CloseTop(IF c = 0 THEN Result(FALSE, <<>>)
                ELSE Result(TRUE, MenuDialogButtons[c]))
    /\ UNCHANGED <<pureVars, serial_port, command_input, uiQ, uiPc, uiData,
                   sessionVars, deviceVars, pc, macro, ip, cmd, elapsed, outcome,
                   errStep, stale, clicks>>

\* execute_macro: a macro button is clicked (no modal dialog is open).
\* Without a serial port there is only a warning; otherwise a new thread
\* runs _execute_macro_steps.
execute_macro(m) ==
    /\ UiIdle /\ dialogs = <<>>
    /\ serial_port # "none"
    /\ budget.runs > 0
    /\ budget.steps >= Len(Macros[m])
    /\ budget' = [budget EXCEPT !.runs = @ - 1, !.steps = @ - Len(Macros[m])]
    /\ \E t \in Threads :
          /\ pc[t] = "idle"
          /\ \A u \in Threads : u < t => pc[u] # "idle"
          /\ pc' = [pc EXCEPT ![t] = "start"]
          /\ macro' = [macro EXCEPT ![t] = m]
    /\ UNCHANGED <<pureVars, uiVars, sessionVars, written, nlines, ip, cmd, elapsed,
                   resultQ, outcome, errStep, stale, clicks>>

\* connect_serial (toggle_connection calls it unless the port is open).
\* Success: the port is open and the reader thread runs.  Failure: the
\* except branch leaves self.serial_port as it is at the raise - unchanged
\* when os.open raised, a Serial object that is not open when
\* self.serial_port.open() raised.
connect_serial ==
    /\ UiIdle /\ dialogs = <<>>
    /\ serial_port # "open"
    /\ \E result \in {"open", "closed", serial_port} : serial_port' = result
    /\ UNCHANGED <<pureVars, command_input, uiQ, uiPc, uiData, dialogs, sessionVars,
                   deviceVars, threadVars>>

\* Fault variant of CloseAll: dialogs closed from outside put no result
CloseAllSilently(queues, open) == queues

\* The results the handlers of the open dialogs put when the dialogs are
\* closed from outside, innermost first: End Macro, None, None
RECURSIVE CloseAll(_, _)
CloseAll(queues, open) ==
    IF open = <<>> THEN queues
    ELSE CloseAll(Put(queues, open[Len(open)].by, Result(FALSE, <<>>)),
                  SubSeq(open, 1, Len(open) - 1))

\* disconnect_serial (the Disconnect button, or handle_serial_error): the
\* reader stops, the port is closed and every open dialog is closed
disconnect_serial ==
    /\ UiIdle
    /\ serial_port = "open"
    /\ serial_port' = "none"
    /\ resultQ' = CloseAll(resultQ, dialogs)
    /\ dialogs' = <<>>
    /\ UNCHANGED <<pureVars, command_input, uiQ, uiPc, uiData, sessionVars,
                   deviceVars, pc, macro, ip, cmd, elapsed, outcome, errStep, stale,
                   clicks>>

\* ------------------------------------------------------------------ reader
\* SerialReaderThread.run emits data_received(line + '\n')
Receive(line) ==
    /\ serial_port = "open"
    /\ budget.lines > 0
    /\ budget' = [budget EXCEPT !.lines = @ - 1]
    /\ nlines' = nlines + 1
    /\ uiQ' = Append(uiQ, Event("data", 0, line, nlines + 1))
    /\ UNCHANGED <<pureVars, serial_port, command_input, uiPc, uiData, dialogs,
                   sessionVars, written, threadVars>>

\* ------------------------------------------------------------------ lock scopes
\* What the lock scopes leave alone
lockFrame == <<framerVars, matchVars, filterVars, macroVars>>

\* Where a thread goes when it leaves each "with self.macro_session_lock"
\* block of _execute_macro_steps and _wait_for_response
AfterScope(scope) ==
    CASE scope = "start" -> {Outside("loop")}
      [] scope = "input" -> {Outside("sleep_send")}
      [] scope = "delay" -> {Outside("sleep_delay")}
      [] scope = "dialog_wait" -> {Outside("get_dialog_wait")}
      [] scope = "single" -> {Outside("sleep_send")}
      [] scope = "scan_first" -> {Outside("act"), Outside("wait_loop")}
      [] scope = "scan" -> {Outside("act"), Outside("wait_sleep")}
      [] scope \in {"end_dialog", "exit", "end_confirm", "except", "complete"} ->
             {Outside("done")}

\* Where a thread goes from a position outside the lock, on its own
AfterOutside(at) ==
    CASE at = "loop" ->
             {At("want", "input"), At("want", "delay"), At("want", "dialog_wait"),
              At("want", "scan_first"), Outside("get_menu_multi"),
              Outside("get_menu_single"), At("want", "except"),
              At("want", "complete")}
      [] at = "sleep_send" -> {Outside("loop")}
      [] at = "sleep_delay" -> {Outside("loop"), At("want", "except")}
      [] at = "wait_loop" -> {Outside("act"), At("want", "scan")}
      [] at = "wait_sleep" -> {Outside("wait_loop")}
      [] at = "act" ->
             {Outside("loop"), At("want", "exit"), Outside("get_prompt"),
              Outside("get_confirm"), Outside("sleep_send")}
      [] OTHER -> {}

\* Where a thread goes when result_queue.get() returns
AfterGet(at) ==
    CASE at = "get_dialog_wait" -> {Outside("loop"), At("want", "end_dialog")}
      [] at = "get_confirm" -> {Outside("loop"), At("want", "end_confirm")}
      [] at = "get_prompt" -> {Outside("loop"), Outside("sleep_send")}
      [] at = "get_menu_multi" -> {Outside("loop")}
      [] at = "get_menu_single" -> {Outside("loop"), At("want", "single")}
      [] OTHER -> {}

\* Fault variant of Released: the lock is still held when the dialog_wait
\* step waits for the answer
HeldAcrossDialog(t, scope) == IF scope = "dialog_wait" THEN t ELSE 0

\* The holder of the lock when thread t has left the with block
Released(t, scope) == 0

\* threading.Thread(target=self._execute_macro_steps).start()
LockThreadStart(t) ==
    /\ lpc[t] = Outside("idle")
    /\ lpc' = [lpc EXCEPT ![t] = At("want", "start")]
    /\ UNCHANGED <<lockFrame, lock_holder, apc>>

\* with self.macro_session_lock: __enter__
LockAcquire(t) ==
    /\ lpc[t].at = "want"
    /\ lock_holder = 0
    /\ lock_holder' = t
    /\ lpc' = [lpc EXCEPT ![t] = At("in", lpc[t].scope)]
    /\ UNCHANGED <<lockFrame, apc>>

\* the body of the with block, and __exit__
LockRelease(t) ==
    /\ lpc[t].at = "in"
    /\ lock_holder' = Released(t, lpc[t].scope)
    /\ \E next \in AfterScope(lpc[t].scope) : lpc' = [lpc EXCEPT ![t] = next]
    /\ UNCHANGED <<lockFrame, apc>>

\* the thread runs, sleeps or raises outside the lock
LockProceed(t) ==
    /\ \E next \in AfterOutside(lpc[t].at) : lpc' = [lpc EXCEPT ![t] = next]
    /\ UNCHANGED <<lockFrame, lock_holder, apc>>

\* the UI thread, not inside handle_serial_data, puts the answer of a dialog
LockAnswer(t) ==
    /\ apc = "idle"
    /\ \E next \in AfterGet(lpc[t].at) : lpc' = [lpc EXCEPT ![t] = next]
    /\ UNCHANGED <<lockFrame, lock_holder, apc>>

\* handle_serial_data: if self.macro_session_active
AppendWant ==
    /\ apc = "idle"
    /\ apc' = "want"
    /\ UNCHANGED <<lockFrame, lock_holder, lpc>>

\* handle_serial_data: with self.macro_session_lock: __enter__
AppendAcquire ==
    /\ apc = "want"
    /\ lock_holder = 0
    /\ lock_holder' = UiThread
    /\ apc' = "in"
    /\ UNCHANGED <<lockFrame, lpc>>

\* handle_serial_data: the appends, and __exit__
AppendRelease ==
    /\ apc = "in"
    /\ lock_holder' = 0
    /\ apc' = "idle"
    /\ UNCHANGED <<lockFrame, lpc>>

\* ------------------------------------------------------------------ specifications
Interpreter(t) ==
    \/ StartRun(t)
    \/ StepInput(t)
    \/ EmitSetInput(t)
    \/ EmitSend(t)
    \/ StepDelay(t)
    \/ DelaySleep(t)
    \/ StepDialogWait(t)
    \/ GetChoice(t)
    \/ StepOutput(t)
    \/ WaitScan(t)
    \/ WaitSleep(t)
    \/ Act(t)
    \/ GetPrompt(t)
    \/ StepMenu(t)
    \/ GetMenuMulti(t)
    \/ GetMenuSingle(t)
    \/ HandleException(t)
    \/ Complete(t)

Next ==
    \/ \E t \in Threads : Interpreter(t)
    \/ UiSetInput
    \/ UiSendCommand
    \/ UiHandleSerialData
    \/ UiAppend
    \/ UiShowDialog
    \/ \E choice \in BOOLEAN : AnswerDialog(choice)
    \/ \E ok \in BOOLEAN, text \in PromptTexts : AnswerInputDialog(ok, text)
    \/ \E c \in 1..3 : MenuClick(c)
    \/ MenuContinue
    \/ \E c \in 0..3 : MenuSelect(c)
    \/ \E m \in DOMAIN Macros : execute_macro(m)
    \/ connect_serial
    \/ disconnect_serial
    \/ \E line \in Lines : Receive(line)

Spec == Init /\ [][Next]_vars

FramerNext ==
    /\ \E n \in 1..MaxStream : ReadChunk(n)
    /\ UNCHANGED <<matchVars, filterVars, lockVars, macroVars>>

FramerStart == FramerInit /\ MatchIdle /\ FilterIdle /\ LockIdle /\ MacroInit

FramerSpec == FramerStart /\ [][FramerNext]_vars

\* The interpreter threads are scheduled, and time.sleep returns
WaitFairness == \A t \in Threads : WF_vars(WaitScan(t) \/ WaitSleep(t))

WaitSpec == Spec /\ WaitFairness

\* The UI thread's event loop delivers the queued signals
UiLoop ==
    UiSetInput \/ UiSendCommand \/ UiHandleSerialData \/ UiAppend \/ UiShowDialog

\* The user answers the dialog that is open: exec_() returns
Answered ==
    \/ \E choice \in BOOLEAN : AnswerDialog(choice)
    \/ \E ok \in BOOLEAN, text \in PromptTexts : AnswerInputDialog(ok, text)
    \/ MenuContinue
    \/ \E c \in 0..3 : MenuSelect(c)

\* Every interpreter thread and the UI thread are scheduled, and every
\* dialog is answered
RunFairness ==
    /\ \A t \in Threads : WF_vars(Interpreter(t))
    /\ WF_vars(UiLoop)
    /\ WF_vars(Answered)

RunStart == FramerIdle /\ MatchIdle /\ FilterIdle /\ LockIdle /\ RunInit

RunSpec == RunStart /\ [][Next]_vars /\ RunFairness

MatchNext ==
    /\ MatchLine
    /\ UNCHANGED <<framerVars, filterVars, lockVars, macroVars>>

MatchStart == FramerIdle /\ MatchInit /\ FilterIdle /\ LockIdle /\ MacroInit

MatchSpec == MatchStart /\ [][MatchNext]_vars

FilterNext ==
    /\ HandleBoth
    /\ UNCHANGED <<framerVars, matchVars, lockVars, macroVars>>

FilterStart == FramerIdle /\ MatchIdle /\ FilterInit /\ LockIdle /\ MacroInit

FilterSpec == FilterStart /\ [][FilterNext]_vars

LockNext ==
    \/ \E t \in Threads :
          \/ LockThreadStart(t)
          \/ LockAcquire(t)
          \/ LockRelease(t)
          \/ LockProceed(t)
          \/ LockAnswer(t)
    \/ AppendWant
    \/ AppendAcquire
    \/ AppendRelease

LockStart == FramerIdle /\ MatchIdle /\ FilterIdle /\ LockIdle /\ MacroInit

\* Whoever holds the lock runs on to the end of the with block, and a
\* thread that waits for the lock gets it when it is free again and again
LockFairness ==
    /\ \A t \in Threads : WF_vars(LockRelease(t))
    /\ WF_vars(AppendRelease)
    /\ SF_vars(AppendAcquire)

LockSpec == LockStart /\ [][LockNext]_vars /\ LockFairness

\* ------------------------------------------------------------------ vocabulary
Running(t) == pc[t] \notin {"idle", "done"}

\* The queued slot invocations of the given types that thread t emitted
EventsBy(queue, t, types) ==
    {i \in DOMAIN queue : queue[i].by = t /\ queue[i].type \in types}

RequestTypes == {"dialog", "input_dialog", "menu"}
SendTypes == {"set_input", "send_command"}

\* The serial writes performed on behalf of thread t
WritesBy(log, t) == {i \in DOMAIN log : log[i].by = t}

\* Thread t is blocked in result_queue.get()
Blocked(t) ==
    pc[t] \in {"get_dialog_wait", "get_confirm", "get_prompt",
               "get_menu_multi", "get_menu_single"}

\* Thread t is about to scan the session buffer for its output step
Scanning(t) == AtStep(t, "output") \/ pc[t] = "wait_scan"

\* Thread t takes a step of its own
Moves(t) == pc'[t] # pc[t] \/ ip'[t] # ip[t]

HasLineWith(buffer, text) == \E i \in DOMAIN buffer : Contains(buffer[i].s, text)

\* ------------------------------------------------------------------ C1
\* C1: at most one interpreter run is active at any time (a second
\* execute_macro while a run is active is rejected).
C1_OneActiveRun == Cardinality({t \in Threads : Running(t)}) <= 1

\* ------------------------------------------------------------------ C2
\* The macro [Send("AT"), ExpectOutput("OK", substring, on_fail=ExitMacro),
\* Send("B")] is Macros[1]; its ExpectOutput is step 2.
C2_InExpect(t) == macro[t] = 1 /\ ip[t] = 2

\* wait_for gives up only when no line containing "OK" is in the buffer
C2_TimeoutMeansNoLine(t) ==
    (C2_InExpect(t) /\ pc[t] = "wait_sleep" /\ pc'[t] = "act_false")
        => ~HasLineWith(macro_session_buffer, OK)

\* a scan succeeds exactly when a line containing "OK" is in the buffer
C2_ScanFinds(t) ==
    (C2_InExpect(t) /\ Scanning(t) /\ Moves(t))
        => (pc'[t] = "act_true" <=> HasLineWith(macro_session_buffer, OK))

\* after a match the run goes on with the step after the ExpectOutput
C2_MatchProceeds(t) ==
    (C2_InExpect(t) /\ pc[t] = "act_true" /\ Moves(t))
        => (pc'[t] = "step" /\ ip'[t] = 3 /\ outcome'[t] = "none")

\* after a timeout the run is exited, and a terminated run does nothing more
C2_TimeoutExits(t) ==
    /\ (C2_InExpect(t) /\ pc[t] = "act_false" /\ Moves(t))
          => (pc'[t] = "done" /\ outcome'[t] = "exit_fail")
    /\ (macro[t] = 1 /\ pc[t] = "done")
          => /\ pc'[t] = "done" /\ ip'[t] = ip[t]
             /\ EventsBy(uiQ', t, RequestTypes \cup SendTypes)
                   = EventsBy(uiQ, t, RequestTypes \cup SendTypes)
                \/ Len(uiQ') < Len(uiQ)

\* an exited run stopped at the ExpectOutput: only the first Send was done;
\* a run that got past the ExpectOutput can only end as completed
C2_Outcomes ==
    \A t \in Threads :
        macro[t] = 1 =>
            /\ outcome[t] \in {"none", "exit_fail", "completed"}
            /\ outcome[t] = "exit_fail" =>
                  /\ pc[t] = "done" /\ ip[t] = 2
                  /\ Cardinality(WritesBy(written, t)) <= 1
                  /\ Cardinality(EventsBy(uiQ, t, SendTypes)) <= 2
                  /\ EventsBy(uiQ, t, RequestTypes) = {}
            /\ ip[t] > 2 => outcome[t] \in {"none", "completed"}
            /\ outcome[t] = "completed" => pc[t] = "done" /\ ip[t] = 4

\* C2 as claimed: if a line containing "OK" is appended before the timeout
\* elapses the run completes; otherwise it is exited and no later step runs.
C2_Original ==
    /\ []C2_Outcomes
    /\ [][\A t \in Threads :
            C2_TimeoutMeansNoLine(t) /\ C2_MatchProceeds(t) /\ C2_TimeoutExits(t)]_vars

\* C2 as amended: if a line containing "OK" is in the Session Buffer at one
\* of wait_for's scans (the scan at the call, or a poll begun before the
\* timeout elapsed) the run goes on and can only end as completed; if no scan
\* finds one, the run is exited and no step after the ExpectOutput executes.
C2_Amended ==
    /\ []C2_Outcomes
    /\ [][\A t \in Threads :
            C2_ScanFinds(t) /\ C2_MatchProceeds(t) /\ C2_TimeoutExits(t)]_vars

C2_Witness ==
    \E t \in Threads : macro[t] = 1 /\ outcome[t] = "completed"

\* ------------------------------------------------------------------ C3
\* C3: once a Send, Delay or DialogWait step has begun, the Session Buffer
\* holds no line that was appended before the step began, so the scans of a
\* following ExpectOutput see none of them.
C3_NoStaleLine ==
    \A t \in Threads : Running(t) => BufferIds \cap stale[t] = {}

C3_Witness ==
    \E t \in Threads :
        /\ pc[t] \in {"wait_scan", "wait_sleep", "act_true", "act_false"}
        /\ stale[t] # {}
        /\ macro_session_buffer # <<>>

\* ------------------------------------------------------------------ C4
\* C4: a line that an ExpectOutput matches was appended after the serial
\* write of the Send step before it: the output step never succeeds while
\* the send_command of its trigger is still waiting in the UI thread's queue.
C4_MatchAfterWrite ==
    \A t \in Threads :
        (/\ pc[t] = "act_true"
         /\ ip[t] > 1
         /\ Steps(t)[ip[t] - 1].kind = "input")
            => EventsBy(uiQ, t, {"send_command"}) = {}

\* ------------------------------------------------------------------ C5
\* C5: every write made for a click in a multi menu is preceded by a clear
\* of the Session Buffer (clear, then write, on the same path): right after
\* the write the buffer is empty.
C5_ClickClearsBuffer ==
    [][(Len(written') > Len(written) /\ written'[Len(written')].via = "menu")
          => macro_session_buffer' = <<>>]_vars

\* ------------------------------------------------------------------ C6
\* The number of 'input' steps of a macro
NumInputSteps(m) == Cardinality({i \in DOMAIN Macros[m] : Macros[m][i].kind = "input"})

\* C6: a Send that fails (port disconnected, write error) is fatal to the
\* run: a run is never reported as completed unless every Send step of it
\* was written to the port.
C6_FailedSendAborts ==
    \A t \in Threads :
        (outcome[t] = "completed" /\ EventsBy(uiQ, t, SendTypes) = {})
            => Cardinality(WritesBy(written, t)) >= NumInputSteps(macro[t])

\* ------------------------------------------------------------------ C7
\* The responses to thread t's current request that exist anywhere: the
\* request not yet shown, the dialog open, or the value on the result queue
Outstanding(t) ==
    Cardinality(EventsBy(uiQ, t, RequestTypes))
        + Cardinality({i \in DOMAIN dialogs : dialogs[i].by = t})
        + Len(resultQ[t])

\* C7: for every request exactly one value is put on its result queue: while
\* the interpreter is blocked on a request, the request is either still to
\* be shown, or shown, or answered with exactly one value - never lost and
\* never answered twice, also when the dialog is cancelled or closed.
C7_ExactlyOneResponse ==
    \A t \in Threads :
        /\ Outstanding(t) = (IF Blocked(t) THEN 1 ELSE 0)
        /\ Len(resultQ[t]) <= 1

C7_Witness ==
    \E t \in Threads :
        /\ pc[t] = "get_prompt"
        /\ serial_port = "none"
        /\ resultQ[t] = <<Result(FALSE, <<>>)>>

\* ------------------------------------------------------------------ C8
\* C8: an output step without a fail action exits the macro on a timeout.
C8_DefaultFailExits ==
    [][\A t \in Threads :
          (pc[t] = "act_false" /\ CurStep(t).fail.a = "NONE" /\ Moves(t))
              => pc'[t] = "done"]_vars

\* ------------------------------------------------------------------ C9
\* an exception in step i is reported with i, deactivates the session and
\* ends the run
C9_Caught(t) ==
    (pc[t] = "except" /\ Moves(t))
        => /\ pc'[t] = "done"
           /\ outcome'[t] = "error"
           /\ errStep'[t] = ip[t]
           /\ ~macro_session_active'

\* a run that ended with an error stays ended: no step i+1, no new request
\* or command from it
C9_Stopped(t) ==
    (pc[t] = "done" /\ outcome[t] = "error")
        => /\ pc'[t] = "done" /\ ip'[t] = ip[t] /\ errStep'[t] = errStep[t]
           /\ EventsBy(uiQ', t, RequestTypes \cup SendTypes)
                 = EventsBy(uiQ, t, RequestTypes \cup SendTypes)
              \/ Len(uiQ') < Len(uiQ)

\* the error names the step that raised, and every step that raises ends
\* the run there
C9_ErrorNamesStep ==
    \A t \in Threads :
        /\ outcome[t] = "error" <=> errStep[t] # 0
        /\ errStep[t] # 0 =>
              pc[t] = "done" /\ errStep[t] = ip[t] /\ Steps(t)[errStep[t]].bad
        /\ (Running(t) /\ pc[t] # "start") =>
              \A i \in 1..(ip[t] - 1) : ~Steps(t)[i].bad

\* C9: an exception raised in step i is caught per step: the error names
\* step i, the run is marked inactive and ends without executing a later
\* step, and the UI thread goes on.
C9_ExceptionEndsRun ==
    /\ []C9_ErrorNamesStep
    /\ [][\A t \in Threads : C9_Caught(t) /\ C9_Stopped(t)]_vars

C9_Witness ==
    \E t \in Threads :
        /\ outcome[t] = "error" /\ errStep[t] = 2
        /\ Len(Steps(t)) > 2
        /\ uiQ = <<>> /\ uiPc = "idle"

\* ------------------------------------------------------------------ C10
\* C10: however the byte stream is split into chunks, the framer emits the
\* same lines as when the whole stream arrives in one chunk.
C10_ChunkInvariance ==
    stream = <<>> => emitted = ReadChunkResult(<<>>, whole)[1]


\* ------------------------------------------------------------------ C11
\* C11: when a matching line is already in the Session Buffer at the call,
\* wait_for returns true at once, for every timeout (zero included): the
\* output step goes from the call to its success action with no sleep.
C11_ImmediateTrue ==
    [][\A t \in Threads :
          (/\ AtStep(t, "output") /\ ~CurStep(t).bad
           /\ ScanBuffer(macro_session_buffer, CurStep(t))
           /\ Moves(t))
              => (pc'[t] = "act_true" /\ elapsed'[t] = 0)]_vars

C11_Witness ==
    \E t \in Threads :
        /\ pc[t] = "act_true"
        /\ CurStep(t).timeout = 0
        /\ ScanBuffer(macro_session_buffer, CurStep(t))


\* ------------------------------------------------------------------ C12
\* t is s without its leading and trailing whitespace
IsTrimOf(t, s) ==
    \E i, j \in 0..Len(s) :
        /\ i + j <= Len(s)
        /\ t = SubSeq(s, i + 1, Len(s) - j)
        /\ \A k \in 1..i : s[k] \in Whitespace
        /\ \A k \in (Len(s) - j + 1)..Len(s) : s[k] \in Whitespace
        /\ t # <<>> => (t[1] \notin Whitespace /\ t[Len(t)] \notin Whitespace)

Trimmed(s) ==
    CHOOSE t \in {SubSeq(s, a, b) : a \in 1..(Len(s) + 1), b \in 0..Len(s)} :
        IsTrimOf(t, s)

\* a occurs in b as a contiguous part
IsSubstring(a, b) ==
    \E p \in 0..Len(b) :
        /\ p + Len(a) <= Len(b)
        /\ \A k \in 1..Len(a) : b[p + k] = a[k]

\* C12: expected text and line are both trimmed; in substring mode the line
\* matches iff the trimmed expected text occurs in it, in exact mode iff it
\* equals the trimmed expected text (a line that only contains it does not
\* match).
C12_MatchRule ==
    m_done =>
        (m_result <=>
            IF m_substring
            THEN IsSubstring(Trimmed(m_expected), Trimmed(m_line))
            ELSE Trimmed(m_line) = Trimmed(m_expected))

\* expected "OK", line " OKK", exact mode: no match
C12_Witness ==
    /\ m_done /\ ~m_result /\ ~m_substring
    /\ m_expected = <<"O", "K">>
    /\ m_line = <<SP, "O", "K", "K">>


\* ------------------------------------------------------------------ C13
\* Thread t is inside the polling loop of _wait_for_response
Polling(t) == pc[t] \in {"wait_scan", "wait_sleep"}

\* wait_for has returned False only at or after the timeout, and less than
\* one sleep after it; inside the loop the timeout has not elapsed
C13_Timing ==
    \A t \in Threads :
        /\ pc[t] = "act_false" =>
              /\ elapsed[t] >= CurStep(t).timeout
              /\ elapsed[t] < CurStep(t).timeout + MaxSleep
        /\ Polling(t) => elapsed[t] < CurStep(t).timeout

\* C13: wait_for terminates; when it returns false the timeout has elapsed,
\* by less than one polling sleep.
C13_TimesOut ==
    /\ []C13_Timing
    /\ \A t \in Threads : Polling(t) ~> (pc[t] \in {"act_true", "act_false"})

C13_Witness ==
    \E t \in Threads :
        /\ pc[t] = "act_false"
        /\ CurStep(t).timeout = 2
        /\ elapsed[t] > CurStep(t).timeout
        /\ macro_session_buffer = <<>>


\* ------------------------------------------------------------------ C14
\* C14: for the same received data, what is appended to the Session Buffer is
\* the same under any two values of the display filter settings
\* (filter_empty_lines, custom_line_filter, flow indicators).
C14_FilterImmune ==
    f_done => f_session[1] = f_session[2]

\* the two configurations display different things (one filters the line
\* out) and both append the line
C14_Witness ==
    /\ f_done
    /\ f_display[1] = <<>> /\ f_display[2] # <<>>
    /\ f_session[1] # <<>>


\* ------------------------------------------------------------------ C15
\* C15: a macro run starts only while the application is connected to a
\* serial port (not when it never connected, has disconnected, or when a
\* connection attempt failed).
C15_StartsOnlyConnected ==
    [][\A t \in Threads :
          (pc[t] = "idle" /\ pc'[t] # "idle") => serial_port = "open"]_vars


\* ------------------------------------------------------------------ C16
\* The action an output step has to evaluate: on_success after a match,
\* on_fail after a timeout
C16_Action(t) == IF pc[t] = "act_true" THEN CurStep(t).success ELSE CurStep(t).fail

\* Thread t goes on with the step after the current one
C16_Proceeds(t) == pc'[t] = "step" /\ ip'[t] = ip[t] + 1 /\ outcome'[t] = "none"

\* Thread t's run ends here
C16_Terminates(t, how) ==
    pc'[t] = "done" /\ outcome'[t] = how /\ ip'[t] = ip[t] /\ ~macro_session_active'

\* what the evaluation of each kind of action does first
C16_Evaluate(t) ==
    (pc[t] \in {"act_true", "act_false"} /\ Moves(t)) =>
        LET action == C16_Action(t)
        IN  CASE action.a \in {"IGNORE", "NONE"} ->
                   C16_Proceeds(t) /\ uiQ' = uiQ
              [] action.a = "EXIT" ->
                   /\ C16_Terminates(t, IF pc[t] = "act_true" THEN "exit_success"
                                        ELSE "exit_fail")
                   /\ uiQ' = uiQ
              [] action.a = "INPUT" ->
                   pc'[t] = "emit_set" /\ cmd'[t] = action.cmd /\ uiQ' = uiQ
              [] action.a = "DIALOG" ->
                   /\ pc'[t] = "get_prompt"
                   /\ uiQ' = Append(uiQ, Event("input_dialog", t, <<>>, 0))
              [] action.a = "DIALOG_WAIT" ->
                   /\ pc'[t] = "get_confirm"
                   /\ uiQ' = Append(uiQ, Event("dialog", t, <<>>, 0))

\* a transmit: one set-input and one send-command request, then the next step
C16_Transmit(t) ==
    /\ (pc[t] = "emit_set" /\ Moves(t)) =>
          /\ pc'[t] = "emit_send"
          /\ uiQ' = Append(uiQ, Event("set_input", t, cmd[t], 0))
    /\ (pc[t] = "emit_send" /\ Moves(t)) =>
          /\ C16_Proceeds(t)
          /\ uiQ' = Append(uiQ, Event("send_command", t, <<>>, ip[t]))

\* the answers: a provided text is transmitted, none is not, and the run
\* proceeds in both cases; abort ends the run, continue proceeds
C16_Answer(t) ==
    /\ (pc[t] = "get_prompt" /\ Moves(t)) =>
          LET answer == Head(resultQ[t])
          IN  /\ uiQ' = uiQ
              /\ IF answer.ok /\ answer.text # <<>>
                 THEN pc'[t] = "emit_set" /\ cmd'[t] = answer.text /\ ip'[t] = ip[t]
                 ELSE C16_Proceeds(t)
    /\ (pc[t] = "get_confirm" /\ Moves(t)) =>
          /\ uiQ' = uiQ
          /\ IF Head(resultQ[t]).ok THEN C16_Proceeds(t)
             ELSE C16_Terminates(t, "ended")

\* the UI thread writes once for a send-command request, and only to an open port
C16_OneWrite ==
    /\ Len(written') \in {Len(written), Len(written) + 1}
    /\ Len(written') > Len(written) => serial_port = "open"

C17_NoWriteOnUiThread ==
    [][written' # written => \E t \in Threads : Moves(t)]_vars


\* ------------------------------------------------------------------ C18
\* C18: whenever no macro run is active the Session Buffer is empty: no line
\* is appended to it outside an active run.
C18_EmptyWhenInactive ==
    ~macro_session_active => macro_session_buffer = <<>>


\* ------------------------------------------------------------------ C19
\* Thread t goes from one step of its list to another
C19_Advances(t) == ip'[t] # ip[t]

\* The states from which the step loop goes on: the run was just activated,
\* or the operation the current step blocks in has returned
C19_Returned(t) ==
    /\ pc[t] \in {"start", "emit_send", "delay_sleep", "act_true", "act_false",
                  "get_dialog_wait", "get_confirm", "get_prompt",
                  "get_menu_multi", "get_menu_single"}
    /\ Blocked(t) =>
          /\ resultQ[t] # <<>>
          /\ EventsBy(uiQ, t, RequestTypes) = {}
          /\ \A i \in DOMAIN dialogs : dialogs[i].by # t

\* The writes made for thread t are in the order of its steps, and none is
\* made for a step the thread has not begun
C19_WritesInStepOrder(t) ==
    /\ \A i, j \in WritesBy(written, t) :
          i < j => written[i].step <= written[j].step
    /\ \A i \in WritesBy(written, t) : written[i].step \in 1..ip[t]

\* C19: the steps of a run execute in list order, one at a time: a thread
\* moves only to the step after the current one, only when the blocking
\* operation of the current step (dialog, delay, wait_for, menu) has
\* returned, and the serial writes made for a run are in the order of the
\* steps that requested them.
C19_StepsInOrder ==
    /\ [][\A t \in Threads :
             C19_Advances(t) =>
                 /\ ip'[t] = ip[t] + 1
                 /\ C19_Returned(t)
                 /\ pc'[t] = "step"]_vars
    /\ [](\A t \in Threads : C19_WritesInStepOrder(t))

\* a send of a later step written after the send of an earlier step
C19_Witness ==
    \E t \in Threads :
        \E i, j \in WritesBy(written, t) :
            /\ i < j
            /\ written[i].step < written[j].step
            /\ written[i].via = "step" /\ written[j].via = "step"


\* ------------------------------------------------------------------ C20
\* Thread t begins a DialogWait step: the buffer is cleared and one confirm
\* request is emitted
C20_Begins(t) ==
    (AtStep(t, "dialog_wait") /\ Moves(t)) =>
        /\ macro_session_buffer' = <<>>
        /\ uiQ' = Append(uiQ, Event("dialog", t, <<>>, 0))
        /\ pc'[t] = "get_dialog_wait"
        /\ ip'[t] = ip[t]

\* The decision arrives: continue goes to the next step, abort ends the run
C20_Decides(t) ==
    (pc[t] = "get_dialog_wait" /\ Moves(t)) =>
        IF Head(resultQ[t]).ok
        THEN /\ pc'[t] = "step" /\ ip'[t] = ip[t] + 1
             /\ outcome'[t] = "none"
             /\ UNCHANGED sessionVars
        ELSE /\ pc'[t] = "done" /\ ip'[t] = ip[t]
             /\ outcome'[t] = "ended"
             /\ errStep'[t] = 0
             /\ ~macro_session_active'

\* A run the user has ended stays ended: no step, no request, no error
C20_Ended(t) ==
    outcome[t] = "ended" =>
        /\ pc[t] = "done"
        /\ errStep[t] = 0
        /\ EventsBy(uiQ, t, RequestTypes \cup SendTypes) = {}
        /\ \A i \in DOMAIN dialogs : dialogs[i].by # t

\* C20: a DialogWait step clears the Session Buffer and issues exactly one
\* confirm request; on continue the run proceeds to the next step; on abort
\* (End Macro) the run ends as "ended by user": the session is inactive, no
\* error is reported, and the thread executes no later step.
C20_DialogWait ==
    /\ [][\A t \in Threads :
             /\ C20_Begins(t)
             /\ C20_Decides(t)
             /\ pc[t] = "done" => (pc'[t] = "done" /\ ip'[t] = ip[t])]_vars
    /\ [](\A t \in Threads :
             /\ pc[t] = "get_dialog_wait" => Outstanding(t) = 1
             /\ C20_Ended(t))

\* one run of [DialogWait] ended by the user, another continued to its end
C20_Witness ==
    \E t, u \in Threads :
        /\ macro[t] = 8 /\ outcome[t] = "ended" /\ ip[t] = 1
        /\ macro[u] = 8 /\ outcome[u] = "completed"


\* ------------------------------------------------------------------ C21
\* Thread t begins a MenuSingle step with commands: one menu request
C21_Begins(t) ==
    (AtStep(t, "menu_single") /\ CurStep(t).commands # <<>> /\ Moves(t)) =>
        /\ uiQ' = Append(uiQ, Event("menu", t, <<>>, 0))
        /\ pc'[t] = "get_menu_single"
        /\ ip'[t] = ip[t]
        /\ UNCHANGED <<sessionVars, written>>

\* The answer arrives: a selected command is readied for one transmit after
\* the buffer is cleared; a cancelled menu goes on and touches nothing
C21_Answer(t) ==
    (pc[t] = "get_menu_single" /\ Moves(t)) =>
        LET selected == Head(resultQ[t])
        IN  /\ resultQ[t] # <<>>
            /\ UNCHANGED <<uiQ, written, macro_session_active>>
            /\ IF selected.ok /\ selected.text # <<>>
               THEN /\ macro_session_buffer' = <<>>
                    /\ cmd'[t] = selected.text
                    /\ pc'[t] = "emit_set" /\ ip'[t] = ip[t]
               ELSE /\ UNCHANGED macro_session_buffer
                    /\ pc'[t] = "step" /\ ip'[t] = ip[t] + 1

\* The writes made for step n of thread t
C21_WritesFor(t, n) == {i \in WritesBy(written, t) : written[i].step = n}

\* At most one write is made for a MenuSingle step, and none before the
\* selected command's send was requested
C21_OneWrite(t) ==
    \A n \in 1..Len(Macros[macro[t]]) :
        Macros[macro[t]][n].kind = "menu_single" =>
            /\ Cardinality(C21_WritesFor(t, n)) <= 1
            /\ (ip[t] = n /\ pc[t] # "done") => C21_WritesFor(t, n) = {}

\* C21: a MenuSingle step issues one menu request and blocks for the
\* answer; a selected command clears the Session Buffer and is transmitted
\* once (one set-input request with that command, one send request, at most
\* one write), then the run proceeds; a cancelled menu proceeds without
\* clearing the buffer, without a request and without a write.
C21_MenuSingle ==
    /\ [][\A t \in Threads : C21_Begins(t) /\ C21_Answer(t) /\ C16_Transmit(t)]_vars
    /\ [](\A t \in Threads :
             /\ pc[t] = "get_menu_single" => Outstanding(t) = 1
             /\ macro[t] # 0 => C21_OneWrite(t))

\* the command selected in the menu of step 1 has been written, once
C21_Witness ==
    \E t \in Threads :
        /\ macro[t] = 4
        /\ ip[t] = 2
        /\ \E i \in C21_WritesFor(t, 1) : written[i].data = Payload(CmdY)


\* ------------------------------------------------------------------ C22
\* Thread t is inside an ExpectOutput step: waiting, or handling its action
C22_InOutput(t) ==
    /\ pc[t] \in {"step", "wait_scan", "wait_sleep", "act_true", "act_false",
                  "get_prompt", "get_confirm", "emit_set", "emit_send"}
    /\ ip[t] <= Len(Steps(t))
    /\ CurStep(t).kind = "output"

\* a is a prefix of b
C22_Prefix(a, b) == Len(a) <= Len(b) /\ SubSeq(b, 1, Len(a)) = a

\* C22: an ExpectOutput step never removes a line from the Session Buffer,
\* neither before waiting nor when its action sends a command: no move of
\* the thread inside the step changes the buffer unless it ends the run,
\* and while the step lasts (no other run executing) the buffer only grows.
C22_OutputKeepsBuffer ==
    [][\A t \in Threads :
          (macro[t] # 0 /\ C22_InOutput(t) /\ pc'[t] # "done") =>
              /\ Moves(t) => UNCHANGED macro_session_buffer
              /\ (\A u \in Threads \ {t} : ~Running(u) /\ ~Running(u)') =>
                    C22_Prefix(macro_session_buffer, macro_session_buffer')]_vars

\* an ExpectOutput step has matched and sent its command, and the matching
\* line is still in the buffer
C22_Witness ==
    \E t \in Threads :
        /\ macro[t] = 6
        /\ ip[t] = 2
        /\ HasLineWith(macro_session_buffer, OK)
        /\ C21_WritesFor(t, 1) # {}


\* ------------------------------------------------------------------ C23
\* The terminal notifications: completed, exited, ended by user, error
C23_Terminal == {"completed", "exit_success", "exit_fail", "ended", "error"}

\* Thread t reaches its terminal state in this step
C23_Ends(t) == pc[t] # "done" /\ pc'[t] = "done"

\* C23: every started run terminates: with the threads scheduled and every
\* dialog answered, a started run reaches a terminal state (completed,
\* exited, ended by user or error); in the step that ends it the session is
\* marked inactive and the notification is emitted; the session is marked
\* active only while a run executes, so it never stays active forever.
C23_RunTerminates ==
    /\ (\E t \in Threads : Running(t)) ~> (\A t \in Threads : ~Running(t))
    /\ [](macro_session_active => \E t \in Threads : Running(t))
    /\ [][\A t \in Threads :
             C23_Ends(t) => ~macro_session_active' /\ outcome'[t] \in C23_Terminal]_vars
    /\ [](\A t \in Threads : Running(t) <=> outcome[t] \notin C23_Terminal /\ pc[t] # "idle")

\* a run of three steps has completed and the session is inactive
C23_Witness ==
    \E t \in Threads :
        /\ macro[t] = 1
        /\ pc[t] = "done"
        /\ outcome[t] = "completed"
        /\ ~macro_session_active


\* ------------------------------------------------------------------ C24
\* The lines of a text read left to right: "\r\n" is one delimiter, '\n' and
\* '\r' alone are one each; <<the lines, the unterminated rest>>
RECURSIVE C24_Frame(_, _)
C24_Frame(text, line) ==
    IF text = <<>> THEN << <<>>, line >>
    ELSE IF Head(text) \in {CR, LF}
         THEN LET pair == Head(text) = CR /\ Len(text) >= 2 /\ text[2] = LF
                  rest == C24_Frame(SubSeq(text, IF pair THEN 3 ELSE 2, Len(text)), <<>>)
              IN  << <<line>> \o rest[1], rest[2] >>
    ELSE C24_Frame(Tail(text), Append(line, Head(text)))

\* each Line is emitted followed by '\n'
C24_Emitted(lines) == [i \in DOMAIN lines |-> lines[i] \o <<LF>>]

\* C24: within one chunk (read into an empty buffer) the framer splits at
\* the earliest delimiter; "\r\n" is consumed as one delimiter and gives one
\* Line, '\n' alone and '\r' alone each end one Line; what follows the last
\* delimiter stays pending.
C24_EarliestDelimiter ==
    [][whole = <<>> =>
          LET framed == C24_Frame(Decode(whole'), <<>>)
          IN  /\ emitted' = C24_Emitted(framed[1])
              /\ rbuffer' = framed[2]]_vars

\* "a\r\na" read as one chunk: one Line, and "a" pending
C24_Witness ==
    /\ stream = <<>>
    /\ whole = <<"a", CR, LF, "a">>
    /\ emitted = << <<"a", LF>> >>
    /\ rbuffer = <<"a">>


\* ------------------------------------------------------------------ C25
\* The numbers the reader gave to the lines on their way to the buffer, in
\* the order of the way: the buffer, the datum being appended, the queued data
C25_InFlight ==
    [i \in DOMAIN macro_session_buffer |-> macro_session_buffer[i].n]
    \o (IF uiPc = "append" THEN <<uiData.n>> ELSE <<>>)
    \o SelectSeq([i \in DOMAIN uiQ |-> IF uiQ[i].type = "data" THEN uiQ[i].n ELSE 0],
                 LAMBDA n : n # 0)

\* C25: lines reach the Session Buffer in the order the framer produced
\* them: the buffer, followed by the lines still on their way, is at every
\* moment a strictly increasing selection of the framed lines 1..nlines, so
\* no line is duplicated or reordered.
C25_FramedOrder ==
    /\ \A i, j \in DOMAIN C25_InFlight : i < j => C25_InFlight[i] < C25_InFlight[j]
    /\ \A i \in DOMAIN C25_InFlight : C25_InFlight[i] \in 1..nlines

\* two framed lines are in the buffer, in the order they were framed
C25_Witness ==
    /\ Len(macro_session_buffer) = 2
    /\ macro_session_buffer[1] = [n |-> 1, s |-> <<"E", "R">>]
    /\ macro_session_buffer[2] = [n |-> 2, s |-> OK]


\* ------------------------------------------------------------------ C26
\* C26: every serial write made for a Send step carries that step's own
\* command followed by the line terminator, and at most one write is made
\* for the step: nothing changes or consumes the command input between the
\* step's set-input request and its send request.
C26_OwnCommand ==
    \A i \in DOMAIN written :
        LET step == Macros[macro[written[i].by]][written[i].step]
        IN  (written[i].via = "step" /\ step.kind = "input") =>
                /\ written[i].data = Payload(step.cmd)
                /\ \A j \in DOMAIN written :
                      (written[j].by = written[i].by /\ written[j].step = written[i].step)
                          => j = i


\* ------------------------------------------------------------------ C27
\* Thread t is blocked in result_queue.get(), sleeping, or has terminated
C27_Parked(t) ==
    lpc[t].at \in {"get_dialog_wait", "get_confirm", "get_prompt", "get_menu_multi",
                   "get_menu_single", "sleep_send", "sleep_delay", "wait_sleep",
                   "done"}

C28_ActiveWhileExecuting ==
    \A t \in Threads :
        pc[t] \notin {"idle", "start", "done"} => macro_session_active


\* ------------------------------------------------------------------ C29
\* C29: when an ExpectOutput step begins its wait, the serial write of the
\* Send step right before it has been performed.
C29_WriteBeforeWait ==
    [][\A t \in Threads :
          (/\ AtStep(t, "output")
           /\ Moves(t)
           /\ ip[t] > 1
           /\ Steps(t)[ip[t] - 1].kind = "input")
              => C21_WritesFor(t, ip[t] - 1) # {}]_vars


\* ------------------------------------------------------------------ C30
\* An exact-match expectation of the given text
C30_Exactly(text) == ExpectOutput(text, 1, FALSE, NoAction, NoAction)

\* C30: the Session Buffer never holds an empty or whitespace-only line, so
\* no line of it satisfies an exact-match expectation of the empty string
\* or of blanks.
C30_NoBlankLine ==
    /\ \A i \in DOMAIN macro_session_buffer : Strip(macro_session_buffer[i].s) # <<>>
    /\ ~ScanBuffer(macro_session_buffer, C30_Exactly(<<>>))
    /\ ~ScanBuffer(macro_session_buffer, C30_Exactly(<<SP>>))

\* during a run "OK" and then a second line were received and handled: only
\* "OK" is in the buffer, the second line was blank
C30_Witness ==
    /\ macro[1] = 6 /\ pc[1] = "step" /\ ip[1] = 1
    /\ nlines = 2
    /\ uiQ = <<>> /\ uiPc = "idle"
    /\ macro_session_buffer = <<[n |-> 1, s |-> OK]>>

====
